---- MODULE Spec2Model ----
(***************************************************************************)
(* Model of the article selection-and-summarization pipeline of            *)
(* newsletter_generator.py: select_top_articles, summarize_article,        *)
(* process_category, main and generate_newsletter.                         *)
(*                                                                         *)
(* Text is a sequence of one-character strings.  Article records are       *)
(* Python dicts living on a heap (a sequence of records addressed by       *)
(* index), so that aliasing and in-place mutation can be told apart from   *)
(* copying.  The generation backend and the HTTP fetch are the             *)
(* environment: their outcomes are chosen nondeterministically.            *)
(***************************************************************************)
EXTENDS Integers, Sequences, FiniteSets, TLC

VARIABLES
    mode,                  \* entry point of the run: "main", "select", "summarize"
    pc,                    \* control position
    heap,                  \* article dicts; a reference is an index into heap
    heap0,                 \* the heap as it was when the run started
    rows,                  \* main: the DataFrame rows (category of each row)
    articles_by_category,  \* main: ordered mapping category -> list of refs
    selected_articles,     \* main: ordered mapping category -> processed refs
    newsletter,            \* main: rendered sections, None before rendering
    ci,                    \* main: position in articles_by_category
    category,              \* select_top_articles / process_category argument
    articles,              \* select_top_articles / process_category argument
    response_text,         \* select_top_articles local
    selected,              \* select_top_articles return value
    si,                    \* process_category: position in selected
    processed,             \* process_category local
    title,                 \* summarize_article argument
    url,                   \* summarize_article argument
    content,               \* summarize_article: content after the fetch branch
    prompt,                \* prompt of the current judgment call
    summary_text,          \* summarize_article local
    summary,               \* summarize_article return value
    content_arg,           \* summarize_article: content as passed by the caller
    exception,             \* the exception that ended the run, "none" otherwise
    summaries,             \* what summarize_article returned, per selected article
    attempts,              \* attempt number of the backend request in flight, 0 if none
    calls,                 \* log of external calls made, in order
    GOOGLE_API_KEY,        \* whether the environment sets the credential
    csv_found,             \* whether news_articles.csv exists
    fetched                \* summarize_article: what its fetch met, None if none

vars == <<mode, pc, heap, heap0, rows, articles_by_category, selected_articles,
          newsletter, ci, category, articles, response_text, selected, si,
          processed, title, url, content, prompt, summary_text, summary,
          attempts, calls, content_arg, exception, summaries, GOOGLE_API_KEY,
          csv_found, fetched>>

-----------------------------------------------------------------------------
(* Bounds of the model *)

MaxPool == 5
MaxRows == 3
MaxRespLines == 2

(* Program constants *)

SelectCount == 2
PromptTitles == 20
ContentPromptLimit == 3000
FetchLimit == 5000
MinLineLen == 5
RetryAttempts == 5

-----------------------------------------------------------------------------
(* Text helpers *)

None == <<>>
Some(x) == <<x>>
IsNone(x) == x = <<>>

Min(a, b) == IF a < b THEN a ELSE b

Take(s, n) == SubSeq(s, 1, Min(n, Len(s)))

UpperChars == <<"A", "B", "C", "D", "E", "F", "G", "H", "I", "J", "K", "L", "M",
                "N", "O", "P", "Q", "R", "S", "T", "U", "V", "W", "X", "Y", "Z">>
LowerChars == <<"a", "b", "c", "d", "e", "f", "g", "h", "i", "j", "k", "l", "m",
                "n", "o", "p", "q", "r", "s", "t", "u", "v", "w", "x", "y", "z">>

LowerChar(c) ==
    IF \E i \in 1..Len(UpperChars) : UpperChars[i] = c
    THEN LowerChars[CHOOSE i \in 1..Len(UpperChars) : UpperChars[i] = c]
    ELSE c

Lower(s) == [i \in 1..Len(s) |-> LowerChar(s[i])]

\* Python's `a in b` on strings
IsSubstring(a, b) ==
    \E k \in 0..(Len(b) - Len(a)) : SubSeq(b, k + 1, k + Len(a)) = a

\* Python's text.split("\n")
RECURSIVE SplitLines(_)
SplitLines(s) ==
    IF \A i \in 1..Len(s) : s[i] # "\n"
    THEN <<s>>
    ELSE LET k == CHOOSE i \in 1..Len(s) :
                      s[i] = "\n" /\ \A j \in 1..(i - 1) : s[j] # "\n"
         IN <<SubSeq(s, 1, k - 1)>> \o SplitLines(SubSeq(s, k + 1, Len(s)))

Whitespace == {" ", "\n", "\t", "\r"}

\* Python's text.strip()
Strip(s) ==
    IF \A i \in 1..Len(s) : s[i] \in Whitespace
    THEN <<>>
    ELSE LET a == CHOOSE i \in 1..Len(s) :
                      s[i] \notin Whitespace
                      /\ \A j \in 1..(i - 1) : s[j] \in Whitespace
             b == CHOOSE i \in 1..Len(s) :
                      s[i] \notin Whitespace
                      /\ \A j \in (i + 1)..Len(s) : s[j] \in Whitespace
         IN SubSeq(s, a, b)

RECURSIVE JoinLines(_)
JoinLines(ls) ==
    IF Len(ls) = 0 THEN <<>>
    ELSE IF Len(ls) = 1 THEN ls[1]
    ELSE ls[1] \o <<"\n">> \o JoinLines(Tail(ls))

-----------------------------------------------------------------------------
(* Articles, CSV rows and the environment's possible answers *)

TitleA == <<"M", "a", "r", "s", " ", "R", "o", "v", "e", "r">>
TitleB == <<"C", "u", "p", " ", "F", "i", "n", "a", "l">>
TitleC == <<"B", "i", "g", " ", "B", "a", "n", "k">>
TitleD == <<"R", "a", "t", "e", "s", " ", "U", "p">>
TitleE == <<"B", "i", "g", " ", "B", "a", "n", "k", " ", "F", "a", "i", "l", "s",
            " ", "A", "g", "a", "i", "n">>
TitleF == <<"M", "a", "r", "s">>

Titles == <<TitleA, TitleB, TitleC, TitleD, TitleE, TitleF>>

\* the title of row i: one of the above, then titles that differ in their
\* last letter and share no line with any answer of the backend
TitleOf(i) ==
    IF i <= Len(Titles) THEN Titles[i]
    ELSE <<"N", "e", "w", "s", " ", LowerChars[i]>>

LinkOf(i) == <<"u", "/", LowerChars[i]>>

SummaryOld == <<"o", "l", "d">>

\* A row read from the CSV as a dict; every other row carries a summary
\* column value already, the others have no such key.
RowDict(i, cat) ==
    IF i % 2 = 0
    THEN [title |-> TitleOf(i), link |-> LinkOf(i), source |-> "feed",
          category |-> cat, summary |-> SummaryOld]
    ELSE [title |-> TitleOf(i), link |-> LinkOf(i), source |-> "feed",
          category |-> cat]

NaN == "nan"
Categories == {"technology", "sports"}

\* Lines the selection backend may answer with
LineA == <<"1", ".", " ", "M", "a", "r", "s", " ", "R", "o", "v", "e", "r">>
LineC == <<"2", ".", " ", "B", "i", "g", " ", "B", "a", "n", "k">>
LineHead == <<"S", "E", "L", "E", "C", "T", "E", "D", ":">>
LineTail == <<"B", "a", "n", "k", " ", "F", "a", "i", "l", "s">>
LineShort == <<"R", "o", "v", "e", "r">>
LineCut == <<"M", "a", "r", "s", " ", "R">>

RespLines == {LineA, LineC, LineHead, LineTail, LineShort, LineCut, <<>>}

SeqsUpTo(S, n) == UNION {[1..k -> S] : k \in 0..n}

\* Concatenated text of the selection backend's answer; <<>> also stands
\* for an answer with no textual part.
SelectResponses == {JoinLines(ls) : ls \in SeqsUpTo(RespLines, MaxRespLines)}

TextOk == <<"O", "k", ".">>
TextPadded == <<" ", "O", "k", ".", "\n">>
TextBlank == <<" ", "\n">>

SummaryResponses == {<<>>, TextBlank, TextOk, TextPadded}

Digits == <<"0", "1", "2", "3", "4", "5", "6", "7", "8", "9">>
PageText(n) == [i \in 1..n |-> Digits[(i % 10) + 1]]
PageLens == {0, 2, ContentPromptLimit + 1, FetchLimit + 1}

\* What requests.get + BeautifulSoup can produce for a link: an exception
\* (transport error, non-2xx status, parse error) or the joined paragraphs.
FetchErrors == {"transport", "status", "parse"}

PageOutcomes ==
    {[ok |-> FALSE, error |-> e, text |-> <<>>] : e \in FetchErrors}
    \cup {[ok |-> TRUE, error |-> "none", text |-> PageText(n)] : n \in PageLens}

Placeholder == <<"S", "u", "m", "m", "a", "r", "y", " ", "u", "n", "a", "v", "a",
                 "i", "l", "a", "b", "l", "e", ".">>

-----------------------------------------------------------------------------
(* fetch_article_content *)

\* variant: the text is returned at its full length
FetchArticleContentUntruncated(page) ==
    IF page.ok THEN page.text ELSE <<>>

FetchArticleContent(page) ==
    IF page.ok
    THEN IF Len(page.text) > FetchLimit
         THEN SubSeq(page.text, 1, FetchLimit)
         ELSE page.text
    ELSE <<>>

-----------------------------------------------------------------------------
(* select_top_articles *)

CategoryUpper(c) ==
    CASE c = "technology" -> "TECHNOLOGY"
      [] c = "sports" -> "SPORTS"

SelectPrompt(h, cat, arts) ==
    [template |-> "select",
     category |-> CategoryUpper(cat),
     titles |-> [i \in 1..Min(PromptTitles, Len(arts)) |-> h[arts[i]].title]]

\* lines = [line.lower() for line in response_text.split("\n") if len(line) > 5]
LongLine(line) == Len(line) > MinLineLen

ResponseLines(resp) ==
    LET kept == SelectSeq(SplitLines(resp), LongLine)
    IN [i \in 1..Len(kept) |-> Lower(kept[i])]

\* variant: containment tested in one direction only
TitleMatchesOneWay(t, lines) ==
    \E i \in 1..Len(lines) : IsSubstring(Lower(t), lines[i])

\* any(title in line or line in title for line in lines)
TitleMatches(t, lines) ==
    \E i \in 1..Len(lines) :
        IsSubstring(Lower(t), lines[i]) \/ IsSubstring(lines[i], Lower(t))

\* the for loop over articles, with its break once two are selected
RECURSIVE ScanArticles(_, _, _, _)
ScanArticles(h, arts, lines, acc) ==
    IF arts = <<>> THEN acc
    ELSE IF TitleMatches(h[Head(arts)].title, lines)
         THEN IF Len(acc) + 1 = SelectCount
              THEN Append(acc, Head(arts))
              ELSE ScanArticles(h, Tail(arts), lines, Append(acc, Head(arts)))
         ELSE ScanArticles(h, Tail(arts), lines, acc)

\* variant: the trivial case stops below two articles
IsTrivialPoolStrict(arts) == Len(arts) < SelectCount

\* if len(articles) <= 2: return articles
IsTrivialPool(arts) == Len(arts) <= SelectCount

\* variant: whatever matched is returned, however few
SelectFromResponseAnyMatch(h, arts, resp) ==
    IF resp = <<>>
    THEN Take(arts, SelectCount)
    ELSE LET sel == ScanArticles(h, arts, ResponseLines(resp), <<>>)
         IN IF Len(sel) >= 1 THEN sel ELSE Take(arts, SelectCount)

\* variant: a single match is kept and padded from the head of the input
SelectFromResponseKeepPartial(h, arts, resp) ==
    IF resp = <<>>
    THEN Take(arts, SelectCount)
    ELSE LET sel == ScanArticles(h, arts, ResponseLines(resp), <<>>)
         IN Take(sel \o arts, SelectCount)

\* the code after the backend's answer has been collected
SelectFromResponse(h, arts, resp) ==
    IF resp = <<>>
    THEN Take(arts, SelectCount)
    ELSE LET sel == ScanArticles(h, arts, ResponseLines(resp), <<>>)
         IN IF Len(sel) = SelectCount THEN sel ELSE Take(arts, SelectCount)

-----------------------------------------------------------------------------
(* summarize_article *)

\* `not content`: None or the empty string
NoContent(c) == IsNone(c) \/ c[1] = <<>>

\* variant: the content goes into the prompt at its full length
SummaryPromptUntruncated(t, u, text) ==
    IF text # <<>>
    THEN [template |-> "content", title |-> t, url |-> u, content |-> text]
    ELSE [template |-> "title_only", title |-> t, url |-> u]

SummaryPrompt(t, u, text) ==
    IF text # <<>>
    THEN [template |-> "content", title |-> t, url |-> u,
          content |-> Take(text, ContentPromptLimit)]
    ELSE [template |-> "title_only", title |-> t, url |-> u]

SummaryResult(text) ==
    IF text # <<>> THEN Strip(text) ELSE Placeholder

-----------------------------------------------------------------------------
(* process_category, get_articles_by_category, generate_newsletter *)

\* variant: item = article, the same dict under another name
AliasItem(h, ref) == [heap |-> h, item |-> ref]

\* item = article.copy(): a new dict on the heap
CopyItem(h, ref) == [heap |-> Append(h, h[ref]), item |-> Len(h) + 1]

\* d[key] = value on a dict with or without that key
SetSummary(d, s) ==
    [f \in (DOMAIN d) \cup {"summary"} |-> IF f = "summary" THEN s ELSE d[f]]

\* item = article.copy(); item["summary"] = summary
AttachSummary(h, ref, s) ==
    LET c == CopyItem(h, ref)
    IN [heap |-> [c.heap EXCEPT ![c.item] = SetSummary(@, s)], item |-> c.item]

\* equality of category cells; a missing cell is NaN, which equals nothing
CategoryEq(a, b) == a # NaN /\ b # NaN /\ a = b

\* df['category'].unique(): values in order of first appearance, NaN once
RECURSIVE Unique(_, _)
Unique(cs, seen) ==
    IF cs = <<>> THEN seen
    ELSE IF \E i \in 1..Len(seen) : seen[i] = Head(cs)
         THEN Unique(Tail(cs), seen)
         ELSE Unique(Tail(cs), Append(seen, Head(cs)))

RowsOfCategory(df, c) ==
    SelectSeq([i \in 1..Len(df) |-> i], LAMBDA i : CategoryEq(df[i], c))

GetArticlesByCategory(df) ==
    LET keys == Unique(df, <<>>)
    IN [k \in 1..Len(keys) |->
           [category |-> keys[k], articles |-> RowsOfCategory(df, keys[k])]]

CategoryTitle(c) ==
    CASE c = "technology" -> "TECHNOLOGY"
      [] c = "sports" -> "SPORTS"

RenderArticle(d) ==
    [title |-> d.title,
     source |-> d.source,
     summary |-> IF "summary" \in DOMAIN d THEN d.summary ELSE Placeholder,
     link |-> d.link]

NonEmptyEntry(e) == e.articles # <<>>

\* variant: a section is rendered for every entry, empty or not
GenerateNewsletterNoSkip(h, sel) ==
    [k \in 1..Len(sel) |->
        [heading |-> IF sel[k].category = NaN THEN "NAN"
                     ELSE CategoryTitle(sel[k].category),
         items |-> [j \in 1..Len(sel[k].articles) |->
                       RenderArticle(h[sel[k].articles[j]])]]]

GenerateNewsletter(h, sel) ==
    LET shown == SelectSeq(sel, NonEmptyEntry)
    IN [k \in 1..Len(shown) |->
           [heading |-> CategoryTitle(shown[k].category),
            items |-> [j \in 1..Len(shown[k].articles) |->
                          RenderArticle(h[shown[k].articles[j]])]]]

-----------------------------------------------------------------------------
(* Initial states *)

Call(kind) == [kind |-> kind, ci |-> ci, si |-> si]

InitLocals ==
    /\ heap0 = heap
    /\ articles_by_category = <<>>
    /\ selected_articles = <<>>
    /\ newsletter = None
    /\ ci = 0
    /\ response_text = <<>>
    /\ selected = <<>>
    /\ si = 0
    /\ processed = <<>>
    /\ content = <<>>
    /\ prompt = None
    /\ summary_text = <<>>
    /\ summary = <<>>
    /\ attempts = 0
    /\ calls = <<>>
    /\ exception = "none"
    /\ summaries = <<>>
    /\ fetched = None

\* main(): the CSV holds up to MaxRows rows, each with a category cell
Init ==
    /\ mode = "main"
    /\ pc = "load"
    /\ GOOGLE_API_KEY \in BOOLEAN
    /\ csv_found \in BOOLEAN
    /\ rows \in SeqsUpTo(Categories \cup {NaN}, MaxRows)
    /\ ~csv_found => rows = <<>>
    /\ heap = [i \in 1..Len(rows) |-> RowDict(i, rows[i])]
    /\ category = NaN
    /\ articles = <<>>
    /\ title = <<>>
    /\ url = <<>>
    /\ content_arg = None
    /\ InitLocals

\* the rows in their order, and an order with a repeated row
PoolOrders ==
    {[i \in 1..Len(Titles) |-> i],
     <<6, 3, 3, 5, 2, 1>>}

\* a pool one longer than the prompt's list of titles: rows 1..5, then rows
\* 7 and up, and row 6 (TitleF) in the place after the last listed title
LongPool ==
    [k \in 1..(PromptTitles + 1) |->
        IF k < Len(Titles) THEN k
        ELSE IF k <= PromptTitles THEN k + 1
        ELSE Len(Titles)]

Pools ==
    {Take(o, n) : o \in PoolOrders, n \in 0..MaxPool}
        \cup {LongPool}

\* a direct call select_top_articles(category, articles)
InitSelect ==
    /\ mode = "select"
    /\ pc = "select"
    /\ GOOGLE_API_KEY = TRUE
    /\ csv_found = FALSE
    /\ rows = <<>>
    /\ heap = [i \in 1..(PromptTitles + 1) |-> RowDict(i, "technology")]
    /\ category \in Categories
    /\ articles \in Pools
    /\ title = <<>>
    /\ url = <<>>
    /\ content_arg = None
    /\ InitLocals

ContentArgs ==
    {None, Some(<<>>), Some(TextOk), Some(PageText(ContentPromptLimit + 1))}

\* a direct call summarize_article(title, url, content)
InitSummarize ==
    /\ mode = "summarize"
    /\ pc = "summarize"
    /\ GOOGLE_API_KEY = TRUE
    /\ csv_found = FALSE
    /\ rows = <<>>
    /\ heap = <<>>
    /\ category = NaN
    /\ articles = <<>>
    /\ \E i \in 1..Len(Titles) : title = Titles[i] /\ url = LinkOf(i)
    /\ content_arg \in ContentArgs
    /\ InitLocals

-----------------------------------------------------------------------------
(* Actions *)

\* select_top_articles up to its await of the selection backend
SelectEnter ==
    /\ pc = "select"
    /\ IF IsTrivialPool(articles)
       THEN /\ selected' = articles
            /\ pc' = "select_done"
            /\ UNCHANGED <<prompt, response_text, attempts, calls>>
       ELSE /\ prompt' = Some(SelectPrompt(heap, category, articles))
            /\ response_text' = <<>>
            /\ attempts' = 1
            /\ calls' = Append(calls, Call("select"))
            /\ pc' = "select_wait"
            /\ UNCHANGED selected
    /\ UNCHANGED <<mode, GOOGLE_API_KEY, csv_found, fetched, heap, heap0,
                   rows, articles_by_category, selected_articles, newsletter,
                   ci, category, articles, si, processed, title, url,
                   content, summary_text, summary, content_arg, exception,
                   summaries>>

\* the transport retries a request that met a retryable status
JudgeRetry ==
    /\ pc \in {"select_wait", "summarize_wait"}
    /\ attempts < RetryAttempts
    /\ attempts' = attempts + 1
    /\ UNCHANGED <<mode, GOOGLE_API_KEY, csv_found, fetched, pc, heap, heap0,
                   rows, articles_by_category, selected_articles, newsletter,
                   ci, category, articles, response_text, selected, si,
                   processed, title, url, content, prompt, summary_text,
                   summary, calls, content_arg, exception, summaries>>

\* the request fails for good: the last attempt met a retryable status, or any
\* attempt met an error that is not retried.  Nothing between run_async and
\* asyncio.run catches the exception.
JudgeRaise ==
    /\ pc \in {"select_wait", "summarize_wait"}
    /\ \E e \in {"retries_exhausted", "api_error"} :
          /\ e = "retries_exhausted" => attempts = RetryAttempts
          /\ exception' = e
    /\ pc' = "raised"
    /\ UNCHANGED <<mode, GOOGLE_API_KEY, csv_found, fetched, heap, heap0,
                   rows, articles_by_category, selected_articles, newsletter,
                   ci, category, articles, response_text, selected, si,
                   processed, title, url, content, prompt, summary_text,
                   summary, attempts, calls, content_arg, summaries>>

\* the selection backend answers; select_top_articles runs to its return
SelectRespond ==
    /\ pc = "select_wait"
    /\ \E r \in SelectResponses :
          /\ response_text' = r
          /\ selected' = SelectFromResponse(heap, articles, r)
    /\ attempts' = 0
    /\ pc' = "select_done"
    /\ UNCHANGED <<mode, GOOGLE_API_KEY, csv_found, fetched, heap, heap0,
                   rows, articles_by_category, selected_articles, newsletter,
                   ci, category, articles, si, processed, title, url,
                   content, prompt, summary_text, summary, calls,
                   content_arg, exception, summaries>>

\* summarize_article up to its await of the summarization backend
SummarizeEnter ==
    /\ pc = "summarize"
    /\ \E page \in PageOutcomes :
          LET fetch == NoContent(content_arg)
              text == IF fetch THEN FetchArticleContent(page) ELSE content_arg[1]
          IN /\ content' = text
             /\ prompt' = Some(SummaryPrompt(title, url, text))
             /\ fetched' = IF fetch
                           THEN Some([ok |-> page.ok, error |-> page.error,
                                      len |-> Len(page.text)])
                           ELSE None
             /\ calls' = calls
                          \o (IF fetch THEN <<Call("fetch")>> ELSE <<>>)
                          \o <<Call("summarize")>>
    /\ summary_text' = <<>>
    /\ attempts' = 1
    /\ pc' = "summarize_wait"
    /\ UNCHANGED <<mode, GOOGLE_API_KEY, csv_found, heap, heap0, rows,
                   articles_by_category, selected_articles, newsletter, ci,
                   category, articles, response_text, selected, si,
                   processed, title, url, summary, content_arg, exception,
                   summaries>>

\* the summarization backend answers; summarize_article runs to its return
SummarizeRespond ==
    /\ pc = "summarize_wait"
    /\ \E r \in SummaryResponses :
          /\ summary_text' = r
          /\ summary' = SummaryResult(r)
          /\ summaries' = Append(summaries, SummaryResult(r))
    /\ attempts' = 0
    /\ pc' = "summarize_done"
    /\ UNCHANGED <<mode, GOOGLE_API_KEY, csv_found, fetched, heap, heap0,
                   rows, articles_by_category, selected_articles, newsletter,
                   ci, category, articles, response_text, selected, si,
                   processed, title, url, content, prompt, calls,
                   content_arg, exception>>

\* variant: the module loads without looking at the credential
CredentialCheckSkipped(key) == FALSE

\* if not GOOGLE_API_KEY
CredentialMissing(key) == ~key

\* the module is imported: the credential is read and checked before
\* anything else exists
ModuleLoad ==
    /\ pc = "load"
    /\ IF CredentialMissing(GOOGLE_API_KEY)
       THEN /\ exception' = "ValueError"
            /\ pc' = "raised"
       ELSE /\ pc' = "main"
            /\ UNCHANGED exception
    /\ UNCHANGED <<mode, GOOGLE_API_KEY, csv_found, fetched, heap, heap0,
                   rows, articles_by_category, selected_articles, newsletter,
                   ci, category, articles, response_text, selected, si,
                   processed, title, url, content, prompt, summary_text,
                   summary, attempts, calls, content_arg, summaries>>

\* main: read the CSV and group its rows
MainStart ==
    /\ pc = "main"
    /\ IF ~csv_found
       THEN /\ exception' = "FileNotFoundError"
            /\ pc' = "raised"
            /\ UNCHANGED <<articles_by_category, ci>>
       ELSE IF rows = <<>>
       THEN /\ pc' = "done"
            /\ UNCHANGED <<articles_by_category, ci, exception>>
       ELSE /\ articles_by_category' = GetArticlesByCategory(rows)
            /\ ci' = 1
            /\ pc' = "main_loop"
            /\ UNCHANGED exception
    /\ UNCHANGED <<mode, GOOGLE_API_KEY, csv_found, fetched, heap, heap0,
                   rows, selected_articles, newsletter, category, articles,
                   response_text, selected, si, processed, title, url,
                   content, prompt, summary_text, summary, attempts, calls,
                   content_arg, summaries>>

\* main: the next category enters process_category
MainProcess ==
    /\ pc = "main_loop"
    /\ ci <= Len(articles_by_category)
    /\ category' = articles_by_category[ci].category
    /\ articles' = articles_by_category[ci].articles
    /\ si' = 0
    /\ pc' = "select"
    /\ UNCHANGED <<mode, GOOGLE_API_KEY, csv_found, fetched, heap, heap0,
                   rows, articles_by_category, selected_articles, newsletter,
                   ci, response_text, selected, processed, title, url,
                   content, prompt, summary_text, summary, attempts, calls,
                   content_arg, exception, summaries>>

\* process_category: select_top_articles has returned, its locals are gone
ProcessSelected ==
    /\ pc = "select_done"
    /\ mode = "main"
    /\ processed' = <<>>
    /\ si' = 1
    /\ response_text' = <<>>
    /\ prompt' = None
    /\ summaries' = <<>>
    /\ pc' = "process_loop"
    /\ UNCHANGED <<mode, GOOGLE_API_KEY, csv_found, fetched, heap, heap0,
                   rows, articles_by_category, selected_articles, newsletter,
                   ci, category, articles, selected, title, url, content,
                   summary_text, summary, attempts, calls, content_arg,
                   exception>>

\* process_category: summarize the next selected article
ProcessNext ==
    /\ pc = "process_loop"
    /\ si <= Len(selected)
    /\ title' = heap[selected[si]].title
    /\ url' = heap[selected[si]].link
    /\ content_arg' = None
    /\ pc' = "summarize"
    /\ UNCHANGED <<mode, GOOGLE_API_KEY, csv_found, fetched, heap, heap0,
                   rows, articles_by_category, selected_articles, newsletter,
                   ci, category, articles, response_text, selected, si,
                   processed, content, prompt, summary_text, summary,
                   attempts, calls, exception, summaries>>

\* process_category: summarize_article has returned, its locals are gone; the
\* summary is attached to a copy of the article
ProcessAttach ==
    /\ pc = "summarize_done"
    /\ mode = "main"
    /\ LET r == AttachSummary(heap, selected[si], summary)
       IN /\ heap' = r.heap
          /\ processed' = Append(processed, r.item)
    /\ si' = si + 1
    /\ content' = <<>>
    /\ prompt' = None
    /\ summary_text' = <<>>
    /\ fetched' = None
    /\ pc' = "process_loop"
    /\ UNCHANGED <<mode, GOOGLE_API_KEY, csv_found, heap0, rows,
                   articles_by_category, selected_articles, newsletter, ci,
                   category, articles, response_text, selected, title, url,
                   summary, attempts, calls, content_arg, exception,
                   summaries>>

\* process_category returns; main stores the list under the category
ProcessReturn ==
    /\ pc = "process_loop"
    /\ si > Len(selected)
    /\ selected_articles' =
          Append(selected_articles,
                 [category |-> category, articles |-> processed])
    /\ ci' = ci + 1
    /\ pc' = "main_loop"
    /\ UNCHANGED <<mode, GOOGLE_API_KEY, csv_found, fetched, heap, heap0,
                   rows, articles_by_category, newsletter, category,
                   articles, response_text, selected, si, processed, title,
                   url, content, prompt, summary_text, summary, attempts,
                   calls, content_arg, exception, summaries>>

\* main: every category is processed; the newsletter is rendered
MainRender ==
    /\ pc = "main_loop"
    /\ ci > Len(articles_by_category)
    /\ newsletter' = Some(GenerateNewsletter(heap, selected_articles))
    /\ pc' = "done"
    /\ UNCHANGED <<mode, GOOGLE_API_KEY, csv_found, fetched, heap, heap0,
                   rows, articles_by_category, selected_articles, ci,
                   category, articles, response_text, selected, si,
                   processed, title, url, content, prompt, summary_text,
                   summary, attempts, calls, content_arg, exception,
                   summaries>>

-----------------------------------------------------------------------------
(* Specifications *)

Next ==
    \/ ModuleLoad
    \/ MainStart
    \/ MainProcess
    \/ SelectEnter
    \/ SelectRespond
    \/ ProcessSelected
    \/ ProcessNext
    \/ SummarizeEnter
    \/ SummarizeRespond
    \/ ProcessAttach
    \/ ProcessReturn
    \/ MainRender
    \/ JudgeRetry
    \/ JudgeRaise

Spec == Init /\ [][Next]_vars

NextSelect == SelectEnter \/ SelectRespond \/ JudgeRetry \/ JudgeRaise

SpecSelect == InitSelect /\ [][NextSelect]_vars

NextSummarize == SummarizeEnter \/ SummarizeRespond \/ JudgeRetry \/ JudgeRaise

SpecSummarize == InitSummarize /\ [][NextSummarize]_vars

-----------------------------------------------------------------------------
(* Properties of select_top_articles, checked under SpecSelect *)

SelectCalls == {i \in 1..Len(calls) : calls[i].kind = "select"}

\* The lower-cased response lines longer than 5 characters
LinesOf(resp) ==
    LET ls == SplitLines(resp)
    IN {Lower(ls[i]) : i \in {j \in 1..Len(ls) : Len(ls[j]) > 5}}

\* Positions of the input whose title contains, or is contained in, a line
MatchingPositions ==
    {i \in 1..Len(articles) :
        \E line \in LinesOf(response_text) :
            \/ IsSubstring(Lower(heap[articles[i]].title), line)
            \/ IsSubstring(line, Lower(heap[articles[i]].title))}

Lowest(S) == CHOOSE i \in S : \A j \in S : i <= j

\* C1: a list of 0, 1 or 2 articles is returned as it is, same articles in
\* the same order, and no call to the selection backend is made.
C1_SmallPoolReturnedUnchanged ==
    (pc = "select_done" /\ Len(articles) <= 2)
        => (selected = articles /\ SelectCalls = {})

C1_Witness ==
    /\ pc = "select_done"
    /\ Len(articles) = 2
    /\ selected = articles
    /\ SelectCalls = {}

\* C2: for more than 2 articles and any response text, exactly 2 articles are
\* returned, taken from two distinct positions of the input and identical in
\* title and link to the input elements there; no article record is made up.
C2_TwoDistinctInputArticles ==
    (pc = "select_done" /\ Len(articles) > 2)
        => /\ Len(selected) = 2
           /\ \E i, j \in 1..Len(articles) :
                 /\ i # j
                 /\ selected[1] = articles[i]
                 /\ selected[2] = articles[j]
                 /\ heap[selected[1]].title = heap0[articles[i]].title
                 /\ heap[selected[1]].link = heap0[articles[i]].link
                 /\ heap[selected[2]].title = heap0[articles[j]].title
                 /\ heap[selected[2]].link = heap0[articles[j]].link
           /\ Len(heap) = Len(heap0)

C2_Witness ==
    /\ pc = "select_done"
    /\ Len(articles) > 2
    /\ response_text # <<>>
    /\ selected # Take(articles, 2)

\* C3: for more than 2 articles, an empty response or fewer than 2 matching
\* articles gives the first 2 articles of the input, in input order; a single
\* match is dropped, also when it is not one of the first 2.
C3_FallbackToFirstTwo ==
    (/\ pc = "select_done"
     /\ Len(articles) > 2
     /\ (response_text = <<>> \/ Cardinality(MatchingPositions) < 2))
        => selected = <<articles[1], articles[2]>>

C3_Witness ==
    /\ pc = "select_done"
    /\ Len(articles) > 2
    /\ response_text # <<>>
    /\ Cardinality(MatchingPositions) = 1
    /\ \A i \in MatchingPositions : i > 2 /\ articles[i] \notin {articles[1], articles[2]}
    /\ selected = <<articles[1], articles[2]>>

\* C4: for more than 2 articles and a non-empty response, when at least 2
\* articles match, the two lowest-indexed matching articles are returned in
\* input order.
C4_TwoLowestMatches ==
    (/\ pc = "select_done"
     /\ Len(articles) > 2
     /\ response_text # <<>>
     /\ Cardinality(MatchingPositions) >= 2)
        => LET first == Lowest(MatchingPositions)
               second == Lowest(MatchingPositions \ {first})
           IN selected = <<articles[first], articles[second]>>

\* the response names the titles of A and C out of [A, B, C, D, E]
C4_Witness ==
    /\ pc = "select_done"
    /\ articles = <<1, 2, 3, 4, 5>>
    /\ response_text = JoinLines(<<LineA, LineC>>)
    /\ MatchingPositions = {1, 3}
    /\ selected = <<1, 3>>

-----------------------------------------------------------------------------
(* Properties of summarize_article, checked under SpecSummarize *)

FetchCalls == {i \in 1..Len(calls) : calls[i].kind = "fetch"}
SummarizeCalls == {i \in 1..Len(calls) : calls[i].kind = "summarize"}

\* C5: summarize_article always returns non-empty text, and returns the
\* placeholder whenever the response is empty after trimming whitespace.
C5_SummaryNeverEmpty ==
    pc = "summarize_done"
        => /\ summary # <<>>
           /\ Strip(summary_text) = <<>> => summary = Placeholder

\* C6: the Content Fetcher is called exactly when no non-empty content is
\* supplied; non-empty content puts title, link and exactly the first
\* min(3000, length) characters of the content in the prompt; empty content
\* gives the title-only prompt; one summarization call is made either way.
C6_PromptGroundedInContent ==
    pc \in {"summarize_wait", "summarize_done"}
        => /\ Cardinality(FetchCalls)
                 = (IF content_arg = None \/ content_arg = Some(<<>>) THEN 1 ELSE 0)
           /\ FetchCalls = {} => content = content_arg[1]
           /\ Cardinality(SummarizeCalls) = 1
           /\ Len(prompt) = 1
           /\ prompt[1].title = title
           /\ prompt[1].url = url
           /\ IF content # <<>>
              THEN /\ prompt[1].template = "content"
                   /\ Len(prompt[1].content) = Min(3000, Len(content))
                   /\ \A i \in 1..Len(prompt[1].content) :
                         prompt[1].content[i] = content[i]
              ELSE prompt[1].template = "title_only"

\* fetched content longer than 3000 characters, cut to 3000 in the prompt
C6_Witness ==
    /\ pc = "summarize_wait"
    /\ content_arg = None
    /\ FetchCalls # {}
    /\ Len(content) > 3000
    /\ prompt[1].template = "content"
    /\ Len(prompt[1].content) = 3000

-----------------------------------------------------------------------------
(* Properties of process_category and main, checked under Spec *)

InProcessCategory ==
    mode = "main"
    /\ pc \in {"process_loop", "summarize", "summarize_wait", "summarize_done"}

OtherFields(d) == (DOMAIN d) \ {"summary"}

\* C7: process_category leaves every input record and the input list as they
\* were; it returns one fresh record per selected article, in selection
\* order, equal to the selected article in every field but summary, which
\* holds what summarize_article returned for that article.
C7_InputNeverMutated ==
    /\ \A r \in 1..Len(heap0) : heap[r] = heap0[r]
    /\ InProcessCategory
          => /\ articles = articles_by_category[ci].articles
             /\ Len(processed) <= Len(selected)
             /\ \A k \in 1..Len(processed) :
                   /\ processed[k] > Len(heap0)
                   /\ \A j \in 1..Len(processed) : j # k => processed[j] # processed[k]
                   /\ DOMAIN heap[processed[k]]
                         = (DOMAIN heap0[selected[k]]) \cup {"summary"}
                   /\ \A f \in OtherFields(heap0[selected[k]]) :
                         heap[processed[k]][f] = heap0[selected[k]][f]
                   /\ heap[processed[k]].summary = summaries[k]
    /\ (InProcessCategory /\ pc = "process_loop")
          => Len(processed) = si - 1 /\ Len(summaries) = Len(processed)

\* two articles processed, the second of which came with a summary of its own
C7_Witness ==
    /\ InProcessCategory
    /\ pc = "process_loop"
    /\ Len(selected) = 2
    /\ Len(processed) = 2
    /\ "summary" \in DOMAIN heap0[selected[2]]
    /\ heap[selected[2]].summary = SummaryOld
    /\ heap[processed[2]].summary = TextOk

NonEmptyInput == SelectSeq(articles_by_category, NonEmptyEntry)

C9_JudgmentFailureNeverSurfaces ==
    /\ exception = "retries_exhausted" => pc # "raised"
    /\ (pc = "select_done" /\ Len(articles) > 2 /\ response_text = <<>>)
          => selected = <<articles[1], articles[2]>>
    /\ (pc = "summarize_done" /\ summary_text = <<>>) => summary = Placeholder

ProcessedCategories ==
    {selected_articles[k].category : k \in 1..Len(selected_articles)}

\* C10: in a run over several categories, a failure while one category is
\* processed does not stop the run: the run ends with the output rendered,
\* holding every other category that has articles.
C10_FailuresIsolatedPerCategory ==
    (/\ mode = "main"
     /\ Len(articles_by_category) >= 2
     /\ exception # "none"
     /\ ~ENABLED Next)
        => /\ newsletter # None
           /\ \A k \in 1..Len(NonEmptyInput) :
                 k # ci => NonEmptyInput[k].category \in ProcessedCategories

-----------------------------------------------------------------------------
(* Properties of the start of the run, checked under Spec *)

\* the run is over and no category was ever handed to process_category
HaltedBeforeProcessing == mode = "main" /\ pc \in {"raised", "done"} /\ ci = 0

\* without the credential nothing is called and nothing is rendered
NothingWithoutCredential ==
    (mode = "main" /\ ~GOOGLE_API_KEY)
        => /\ pc \in {"load", "raised"}
           /\ pc = "raised" => exception = "ValueError"
           /\ calls = <<>>
           /\ newsletter = None
           /\ selected_articles = <<>>

-----------------------------------------------------------------------------
(* Properties of fetch_article_content, checked under Spec *)

\* C12: fetch_article_content never raises and returns at most 5000
\* characters; a transport error, a non-2xx status or a parse error gives the
\* empty string, and the summary then goes the title-only way, the run going
\* on to the summarization call.
C12_FetchNeverRaises ==
    fetched # None
        => /\ Len(content) <= 5000
           /\ fetched[1].ok => Len(content) = Min(fetched[1].len, 5000)
           /\ ~fetched[1].ok => content = <<>>
           /\ content = <<>> => prompt[1].template = "title_only"
           /\ exception \in {"none", "retries_exhausted", "api_error"}
           /\ Len(calls) >= 2
           /\ calls[Len(calls) - 1].kind = "fetch"
           /\ calls[Len(calls)].kind = "summarize"
           /\ pc = "summarize_done" => summaries # <<>>

\* a fetch that met a non-2xx status, summarized from the title alone
C12_Witness ==
    /\ mode = "main"
    /\ pc = "summarize_done"
    /\ fetched = Some([ok |-> FALSE, error |-> "status", len |-> 0])
    /\ content = <<>>
    /\ prompt[1].template = "title_only"
    /\ summary = TextOk

\* a page longer than 5000 characters, cut to 5000
C12_WitnessLong ==
    /\ fetched # None
    /\ fetched[1].ok
    /\ fetched[1].len > 5000
    /\ Len(content) = 5000

-----------------------------------------------------------------------------
(* Properties of the order of external calls, checked under Spec *)

Rank(kind) ==
    CASE kind = "select" -> 0
      [] kind = "fetch" -> 1
      [] kind = "summarize" -> 2

\* call a belongs to an earlier category than b, or to the same category and
\* an earlier article, or to the same article and an earlier step
Before(a, b) ==
    \/ a.ci < b.ci
    \/ a.ci = b.ci /\ a.si < b.si
    \/ a.ci = b.ci /\ a.si = b.si /\ Rank(a.kind) < Rank(b.kind)

CallsOf(c, kind) ==
    {i \in 1..Len(calls) : calls[i].ci = c /\ calls[i].kind = kind}

PoolOf(c) == articles_by_category[c].articles

\* Categories in input order, one at a time; in a category the selection call
\* (none for a pool of at most 2) comes before the first fetch, then fetch
\* and summarization alternate article by article; at most 1 selection call,
\* 2 fetches and 2 summarization calls per category; no call for a category
\* before the one before it has returned.
CallOrder ==
    mode = "main"
        => /\ \A i \in 1..(Len(calls) - 1) : Before(calls[i], calls[i + 1])
           /\ \A i \in 1..Len(calls) :
                 /\ calls[i].ci \in 1..Len(articles_by_category)
                 /\ calls[i].ci <= Len(selected_articles) + 1
                 /\ calls[i].kind = "select"
                       => calls[i].si = 0 /\ Len(PoolOf(calls[i].ci)) > 2
                 /\ calls[i].kind # "select"
                       => /\ calls[i].si \in 1..2
                          /\ Len(PoolOf(calls[i].ci)) > 2
                                => CallsOf(calls[i].ci, "select") # {}
                 /\ calls[i].kind = "summarize"
                       => i > 1 /\ calls[i - 1].kind = "fetch"
                                /\ calls[i - 1].ci = calls[i].ci
                                /\ calls[i - 1].si = calls[i].si
           /\ \A c \in 1..Len(articles_by_category) :
                 /\ Cardinality(CallsOf(c, "select")) <= 1
                 /\ Cardinality(CallsOf(c, "fetch")) <= 2
                 /\ Cardinality(CallsOf(c, "summarize")) <= 2

\* in a run that is over, every category that was entered got its selection
\* call if its pool has more than 2 articles, and one fetch and one
\* summarization call per selected article
CallsComplete ==
    (mode = "main" /\ pc \in {"done", "raised"})
        => \A c \in 1..Len(articles_by_category) :
              c <= ci
                 => /\ Cardinality(CallsOf(c, "select"))
                          = (IF Len(PoolOf(c)) > 2 THEN 1 ELSE 0)
                    /\ Cardinality(CallsOf(c, "fetch")) = Min(Len(PoolOf(c)), 2)
                    /\ Cardinality(CallsOf(c, "summarize")) = Min(Len(PoolOf(c)), 2)

\* C13: in every run categories are processed one at a time in input order;
\* in a category the selection call (at most one, none for a pool of at most
\* 2) completes before the first fetch or summarization call; then exactly
\* one fetch and one summarization call are made per selected article, in
\* selection order; no call for a later category starts before the earlier
\* category's last summary is attached.
C13_SequentialCalls == CallOrder /\ CallsComplete

-----------------------------------------------------------------------------
(* The prompt's limit of 20 titles, checked under SpecSelect *)

\* C14: for a pool of more than 20 articles, every article returned by
\* select_top_articles is one of the first 20 articles of the pool, the ones
\* whose titles are listed in the prompt; an article at position 21 or later
\* is never selected.
C14_SelectedAmongPromptTitles ==
    (mode = "select" /\ pc = "select_done" /\ Len(articles) > PromptTitles)
        => \A k \in 1..Len(selected) :
              \E i \in 1..PromptTitles : selected[k] = articles[i]

====
